---- MODULE Spec2Model ----
(***************************************************************************)
(* A model of src/src/module.rs: the Module wrapper around one LLVM module *)
(* handle.  The LLVM C API is the environment: each LLVM* operator below   *)
(* states what the call made at the cited line does to the backend's own   *)
(* state, and every answer the backend is free to give (a null handle, a   *)
(* return code, a write status) is an input the action draws from a set.   *)
(***************************************************************************)
EXTENDS Integers, Sequences, FiniteSets, TLC

(* ------------------------------------------------------------ bounds -- *)
MaxModules == 2      \* backend module handles ever allocated
MaxFns == 2          \* functions per backend module
MaxGlobals == 1      \* globals per backend module
MaxEngines == 2      \* execution engines ever constructed
MaxMessages == 1     \* diagnostic messages ever handed to the wrapper
MaxLog == 1          \* lines ever written to the error stream

(* --------------------------------------------------------- constants -- *)
NUL == 0             \* the byte CString::new rejects
NullRef == 0         \* a null LLVMModuleRef / LLVMValueRef / message pointer

\* Bytes of the strings crossing into the backend: 1 is 'f', 2 is 'g'.
Strs == {<<1>>, <<2>>, <<1, NUL, 2>>}
\* The triples, global names and paths tried: one good, one with a NUL.
Texts == {<<1>>, <<1, NUL, 2>>}
\* LLVMBool, the answer of LLVMVerifyModule and
\* LLVMCreateExecutionEngineForModule: 0 success, 1 failure.
LLVMBool == {0, 1}
\* The int LLVMWriteBitcodeToFile answers: 0 success, anything else failure.
WriteStatus == {-1, 0, 1}
Linkages == {"InternalLinkage"}
DefaultTarget == <<>>
DefaultLayout == "default"
Layouts == {"e-m:e"}
VerifyText == "broken module"
EngineText == "cannot create engine"

VARIABLES
    llvm,        \* backend modules; the handle of llvm[h] is h
    modules,     \* the Module values: [module |-> handle, live |-> BOOLEAN]
    engines,     \* the ExecutionEngine values: [module, jit, init, live]
    messages,    \* diagnostics handed out: messages[i] = times disposed
    nullDisposed,\* LLVMDisposeMessage calls on a null pointer
    stdout,      \* lines the wrapper printed with println!
    stderr,      \* lines the backend printed to the error stream
    linked,      \* backends linked in: subset of {"interpreter", "mcjit"}
    files,       \* the filesystem: path -> size of the file there
    added,       \* history: added[h], the add_function calls made on module h
    last         \* the last call and what it returned

vars == <<llvm, modules, engines, messages, nullDisposed, stdout, stderr,
          linked, files, added, last>>

(* ------------------------------------------------------------ strings -- *)
HasNul(s) == \E i \in 1..Len(s) : s[i] = NUL

\* The bytes a C reader sees of s: those before its first NUL.
UpToNul(s) == IF HasNul(s)
              THEN SubSeq(s, 1, (CHOOSE i \in 1..Len(s) :
                                   s[i] = NUL /\ \A j \in 1..(i - 1) : s[j] # NUL) - 1)
              ELSE s

\* CString::new(s): an error when s holds a NUL byte, else the bytes of s.
CStringUnchecked(s) == [ok |-> TRUE, bytes |-> UpToNul(s)]
CStringNew(s) == IF HasNul(s) THEN [ok |-> FALSE, bytes |-> <<>>]
                 ELSE [ok |-> TRUE, bytes |-> s]

(* ------------------------------------------------------------ backend -- *)
EmptyModule == [fns |-> <<>>, globals |-> <<>>, target |-> DefaultTarget,
                layout |-> DefaultLayout, disposed |-> 0]

\* A function handle is the address of a function of a module: the module
\* and the function's place in its list (functions are never removed here).
FnRef(h, i) == <<h, i>>
NullFn == <<NullRef, NullRef>>

FnNames(h) == {llvm[h].fns[i].name : i \in 1..Len(llvm[h].fns)}

\* The name a new value gets: LLVM's symbol table makes a taken name unique
\* by appending a suffix, so the new function never replaces the old one.
UniqueName(h, name) ==
    IF name \in FnNames(h) THEN name \o <<3, Len(llvm[h].fns)>> ELSE name

\* LLVMGetNamedFunction: the function of that exact name, or null.
LLVMGetNamedFunction(h, name) ==
    IF name \in FnNames(h)
    THEN FnRef(h, CHOOSE i \in 1..Len(llvm[h].fns) : llvm[h].fns[i].name = name)
    ELSE NullFn

LLVMGetFirstFunction(h) ==
    IF llvm[h].fns = <<>> THEN NullFn ELSE FnRef(h, 1)

LLVMGetLastFunction(h) ==
    IF llvm[h].fns = <<>> THEN NullFn ELSE FnRef(h, Len(llvm[h].fns))

\* No named struct types are ever registered through this file.
LLVMGetTypeByName(h, name) == NullFn

\* LLVMModuleCreateWithName / LLVMCloneModule / a Context's factory: the
\* backend's module table with one more module in it.  The new handle is
\* Len(llvm) + 1.
LLVMNewModule(contents) == Append(llvm, [contents EXCEPT !.disposed = 0])

\* LLVMAddFunction: a declaration with external linkage at the end of the
\* module's function list.
LLVMAddFunction(m, h, bytes) ==
    [m EXCEPT ![h].fns = Append(@, [name |-> UniqueName(h, bytes),
                                    linkage |-> "ExternalLinkage"])]

\* LLVMSetLinkage on the function at place i of module h.
LLVMSetLinkage(m, h, i, linkage) == [m EXCEPT ![h].fns[i].linkage = linkage]

\* LLVMAddGlobal / LLVMAddGlobalInAddressSpace.
LLVMAddGlobal(m, h, bytes, space) ==
    [m EXCEPT ![h].globals = Append(@, [name |-> bytes, space |-> space,
                                        init |-> FALSE])]

LLVMSetInitializer(m, h, i) == [m EXCEPT ![h].globals[i].init = TRUE]

\* The bitcode of a module is never empty: a header, then its contents.
BitcodeSize(h) == 1 + Len(llvm[h].fns) + Len(llvm[h].globals)

\* LLVMWriteBitcodeToFile: status 0 and the file written, or another status
\* and the filesystem as it was.
LLVMWriteBitcodeToFile(h, bytes, status) ==
    IF status = 0 THEN [files EXCEPT ![bytes] = BitcodeSize(h)] ELSE files

\* LLVMVerifyModule(M, Action, OutMessages) answering code: what it prints
\* to the error stream, and whether it allocates a message for the caller
\* (only through a non-null OutMessages).
LLVMVerifyModule(action, outMessages, code) ==
    [printed |-> IF code # 0 /\ action = "LLVMPrintMessageAction"
                 THEN <<VerifyText>> ELSE <<>>,
     allocates |-> outMessages # NullRef]

\* LLVMCreateExecutionEngineForModule answering code: on success the engine
\* handle is written through OutEE and OutError is left alone; on failure a
\* message is allocated and OutEE is left as it was.
LLVMCreateExecutionEngineForModule(code) ==
    [wroteEngine |-> code = 0, allocates |-> code # 0]

(* ----------------------------------------------------------- wrappers -- *)
Live == {w \in 1..Len(modules) : modules[w].live}
\* A Module whose backend module is still there: calls on a disposed one
\* are use-after-free and are not taken.
Usable == {w \in Live : /\ modules[w].module \in 1..Len(llvm)
                         /\ llvm[modules[w].module].disposed = 0}

Panic == <<"panic">>
None == <<"None">>
Some(v) == <<"Some", v>>
Ok(v) == <<"Ok", v>>
Err(v) == <<"Err", v>>
Ret(v) == <<"ret", v>>

\* The record of a call: the operation, the Module it was made on, its
\* argument, what it returned; code is the backend's answer, out and err
\* what the call wrote to stdout and to the error stream, seen the backends
\* the call linked in before it attempted the engine construction.
Call(op, w, arg, res) ==
    [op |-> op, w |-> w, arg |-> arg, res |-> res, code |-> 0,
     out |-> <<>>, err |-> <<>>, seen |-> {}]

\* Module::new: assert!(!module.is_null()), then the Module value.  The
\* empty sequence stands for the assertion failing: no Module exists.
NewUnchecked(module) == <<[module |-> module, live |-> TRUE]>>
new(module) ==
    IF module = NullRef THEN <<>> ELSE <<[module |-> module, live |-> TRUE]>>

Init ==
    /\ llvm = <<>>
    /\ modules = <<>>
    /\ engines = <<>>
    /\ messages = <<>>
    /\ nullDisposed = 0
    /\ stdout = <<>>
    /\ stderr = <<>>
    /\ linked = {}
    /\ files = [p \in {s \in Texts : ~HasNul(s)} |-> 0]
    /\ added = <<>>
    /\ last = Call("init", 0, <<>>, None)

\* A module handle coming back from the backend, a new module with the given
\* contents or null, and handed to Module::new.
Wrap(op, arg, contents, backendOk) ==
    LET module == IF backendOk THEN Len(llvm) + 1 ELSE NullRef
    IN /\ llvm' = IF backendOk THEN LLVMNewModule(contents) ELSE llvm
       /\ added' = IF backendOk THEN Append(added, <<>>) ELSE added
       /\ modules' = modules \o new(module)
       /\ last' = [Call(op, IF new(module) = <<>> THEN 0 ELSE Len(modules) + 1, arg,
                        IF new(module) = <<>> THEN Panic ELSE Some(module))
                   EXCEPT !.code = module]

\* Module::create(name).  backendOk: whether LLVMModuleCreateWithName gives a
\* module or null.
create(name, backendOk) ==
    /\ Len(llvm) < MaxModules
    /\ IF ~CStringNew(name).ok
       THEN /\ last' = Call("create", 0, name, Panic)
            /\ UNCHANGED <<llvm, modules, added>>
       ELSE Wrap("create", name, EmptyModule, backendOk)
    /\ UNCHANGED <<engines, messages, nullDisposed, stdout, stderr, linked, files>>

\* Context::create_module, the crate's other caller of Module::new: it hands
\* new() the handle the backend gave it.
context_create_module(backendOk) ==
    /\ Len(llvm) < MaxModules
    /\ Wrap("new", <<>>, EmptyModule, backendOk)
    /\ UNCHANGED <<engines, messages, nullDisposed, stdout, stderr, linked, files>>

\* impl Clone for Module.
CloneShallow(w, backendOk) ==
    /\ w \in Usable
    /\ Len(llvm) < MaxModules
    /\ modules' = modules \o new(modules[w].module)
    /\ last' = [Call("clone", Len(modules) + 1, w, Some(modules[w].module))
                EXCEPT !.code = modules[w].module]
    /\ UNCHANGED <<llvm, added, engines, messages, nullDisposed, stdout, stderr,
                   linked, files>>
clone(w, backendOk) ==
    /\ w \in Usable
    /\ Len(llvm) < MaxModules
    /\ Wrap("clone", w, llvm[modules[w].module], backendOk)
    /\ UNCHANGED <<engines, messages, nullDisposed, stdout, stderr, linked, files>>

\* Module::add_function(name, return_type, linkage); linkage is None or
\* Some(l).
add_function(w, name, linkage) ==
    /\ w \in Usable
    /\ LET h == modules[w].module
           c == CStringNew(name)
           i == Len(llvm[h].fns) + 1
           made == LLVMAddFunction(llvm, h, c.bytes)
       IN /\ i <= MaxFns
          /\ IF ~c.ok
             THEN /\ last' = Call("add_function", w, name, Panic)
                  /\ UNCHANGED <<llvm, added>>
             ELSE /\ llvm' = IF linkage = None THEN made
                             ELSE LLVMSetLinkage(made, h, i, linkage[2])
                  /\ added' = [added EXCEPT ![h] =
                                  Append(@, [name |-> name, ret |-> FnRef(h, i),
                                             fresh |-> c.bytes \notin FnNames(h),
                                             linkage |-> linkage])]
                  /\ last' = Call("add_function", w, name, Ret(FnRef(h, i)))
    /\ UNCHANGED <<modules, engines, messages, nullDisposed, stdout, stderr, linked, files>>

\* A null result handle is absence, any other a value.
Option(ref) == IF ref = NullFn THEN None ELSE Some(ref)

\* Module::get_first_function.
get_first_function(w) == Option(LLVMGetFirstFunction(modules[w].module))

\* Module::get_last_function.
GetLastAsFirst(w) == Option(LLVMGetFirstFunction(modules[w].module))
get_last_function(w) == Option(LLVMGetLastFunction(modules[w].module))

\* Module::get_function(name).
GetFunctionFirst(w, name) ==
    IF ~CStringNew(name).ok THEN Panic
    ELSE Option(LLVMGetFirstFunction(modules[w].module))
get_function(w, name) ==
    IF ~CStringNew(name).ok THEN Panic
    ELSE Option(LLVMGetNamedFunction(modules[w].module, CStringNew(name).bytes))

\* Module::get_type(name).
get_type(w, name) ==
    IF ~CStringNew(name).ok THEN Panic
    ELSE Option(LLVMGetTypeByName(modules[w].module, CStringNew(name).bytes))

\* A call of one of the queries above: nothing changes but the call record.
Query(op, w, arg, res) ==
    /\ w \in Usable
    /\ last' = Call(op, w, arg, res)
    /\ UNCHANGED <<llvm, modules, engines, messages, nullDisposed, stdout, stderr,
                   linked, files, added>>

CallGetFirstFunction(w) == Query("get_first_function", w, <<>>, get_first_function(w))
CallGetLastFunction(w) == Query("get_last_function", w, <<>>, get_last_function(w))
CallGetFunction(w, name) == Query("get_function", w, name, get_function(w, name))
CallGetType(w, name) == Query("get_type", w, name, get_type(w, name))

\* Module::set_target(target_triple).
set_target(w, target_triple) ==
    /\ w \in Usable
    /\ LET c == CStringNew(target_triple)
       IN IF ~c.ok
          THEN /\ last' = Call("set_target", w, target_triple, Panic)
               /\ UNCHANGED llvm
          ELSE /\ llvm' = [llvm EXCEPT ![modules[w].module].target = c.bytes]
               /\ last' = Call("set_target", w, target_triple, Ret(<<>>))
    /\ UNCHANGED <<modules, engines, messages, nullDisposed, stdout, stderr, linked, files, added>>

\* Module::set_data_layout(data_layout): the layout is a DataLayout value,
\* not a string of the caller's.
set_data_layout(w, data_layout) ==
    /\ w \in Usable
    /\ llvm' = [llvm EXCEPT ![modules[w].module].layout = data_layout]
    /\ last' = Call("set_data_layout", w, data_layout, Ret(<<>>))
    /\ UNCHANGED <<modules, engines, messages, nullDisposed, stdout, stderr, linked, files, added>>

\* Module::add_global(type_, initial_value, address_space, name);
\* initial_value is Some or None (a BOOLEAN here), address_space None or
\* Some(n).
add_global(w, initial_value, address_space, name) ==
    /\ w \in Usable
    /\ LET h == modules[w].module
           c == CStringNew(name)
           i == Len(llvm[h].globals) + 1
           made == LLVMAddGlobal(llvm, h, c.bytes, address_space)
       IN /\ i <= MaxGlobals
          /\ IF ~c.ok
             THEN /\ last' = Call("add_global", w, name, Panic)
                  /\ UNCHANGED llvm
             ELSE /\ llvm' = IF initial_value THEN LLVMSetInitializer(made, h, i)
                             ELSE made
                  /\ last' = Call("add_global", w, name, Ret(<<h, "global", i>>))
    /\ UNCHANGED <<modules, engines, messages, nullDisposed, stdout, stderr, linked, files, added>>

\* Module::write_bitcode_to_path(path).  unicode: whether path.to_str() finds
\* valid Unicode; status: the backend's answer.
WriteSucceededNonNegative(status) == status >= 0
WriteSucceeded(status) == status = 0

write_bitcode_to_path(w, path, unicode, status) ==
    /\ w \in Usable
    /\ LET c == CStringNew(path)
       IN IF ~unicode \/ ~c.ok
          THEN /\ last' = Call("write_bitcode_to_path", w, path, Panic)
               /\ UNCHANGED files
          ELSE /\ files' = LLVMWriteBitcodeToFile(modules[w].module, c.bytes, status)
               /\ last' = [Call("write_bitcode_to_path", w, path,
                                Ret(WriteSucceeded(status)))
                           EXCEPT !.code = status]
    /\ UNCHANGED <<llvm, modules, engines, messages, nullDisposed, stdout, stderr,
                   linked, added>>

\* LLVMDisposeMessage(p) on the message table: p is a message number or null.
DisposeForgotten(msgs, p) == msgs
Dispose(msgs, p) == IF p = NullRef THEN msgs ELSE [msgs EXCEPT ![p] = @ + 1]

\* The verifier action verify() asks for.
VerifierActionSwapped(print) ==
    IF print THEN "LLVMReturnStatusAction" ELSE "LLVMPrintMessageAction"
VerifierAction(print) ==
    IF print THEN "LLVMPrintMessageAction" ELSE "LLVMReturnStatusAction"

\* What verify() returns: code == 0.
VerifyOk(code) == code = 0

\* Module::verify(print).  err_str is zeroed(): a null char**, so the
\* backend has nowhere to put a message.  code: the backend's answer.
verify(w, print, code) ==
    /\ w \in Usable
    /\ LET err_str == NullRef
           b == LLVMVerifyModule(VerifierAction(print), err_str, code)
           \* *err_str, when there is one: the message just allocated
           msg == IF b.allocates THEN Len(messages) + 1 ELSE NullRef
           given == IF b.allocates THEN Append(messages, 0) ELSE messages
           taken == code = 1 /\ err_str # NullRef
           printed == IF taken /\ print THEN <<VerifyText>> ELSE <<>>
       IN /\ Len(stderr) + Len(b.printed) <= MaxLog
          /\ Len(given) <= MaxMessages
          /\ stderr' = stderr \o b.printed
          /\ stdout' = stdout \o printed
          /\ messages' = IF taken THEN Dispose(given, msg) ELSE given
          /\ nullDisposed' = IF taken /\ msg = NullRef THEN nullDisposed + 1
                             ELSE nullDisposed
          /\ last' = [Call("verify", w, print, Ret(VerifyOk(code)))
                      EXCEPT !.code = code, !.out = printed, !.err = b.printed]
    /\ UNCHANGED <<llvm, modules, engines, linked, files, added>>

\* Module::create_execution_engine(jit_mode).  code: the backend's answer.
EngineFailedInverted(code) == code = 0
EngineFailed(code) == code = 1

\* The backends the call links in before it attempts the construction.
LinkedBy(jit_mode) == (IF jit_mode THEN {"mcjit"} ELSE {}) \cup {"interpreter"}

create_execution_engine(w, jit_mode, code) ==
    /\ w \in Usable
    /\ LET b == LLVMCreateExecutionEngineForModule(code)
           \* execution_engine is uninitialized() until the backend writes it
           init == b.wroteEngine
           \* err_str is zeroed(), null until the backend allocates a message
           err_str == IF b.allocates THEN Len(messages) + 1 ELSE NullRef
           given == IF b.allocates THEN Append(messages, 0) ELSE messages
           seen == LinkedBy(jit_mode)
       IN /\ Len(given) <= MaxMessages
          /\ linked' = linked \cup seen
          /\ IF EngineFailed(code)
             THEN /\ messages' = Dispose(given, err_str)
                  /\ nullDisposed' = IF err_str = NullRef THEN nullDisposed + 1
                                     ELSE nullDisposed
                  /\ UNCHANGED engines
                  /\ last' = [Call("create_execution_engine", w, jit_mode, Err(EngineText))
                              EXCEPT !.code = code, !.seen = seen]
             ELSE /\ Len(engines) < MaxEngines
                  /\ messages' = given
                  /\ UNCHANGED nullDisposed
                  /\ engines' = Append(engines, [module |-> modules[w].module,
                                                 jit |-> jit_mode, init |-> init,
                                                 live |-> TRUE])
                  /\ last' = [Call("create_execution_engine", w, jit_mode,
                                   Ok(Len(engines) + 1))
                              EXCEPT !.code = code, !.seen = seen]
    /\ UNCHANGED <<llvm, modules, stdout, stderr, files, added>>

\* The Module value going out of scope.  impl Drop for Module is commented
\* out: nothing is called, the backend module stays as it is.
drop(w) ==
    /\ w \in Live
    /\ modules' = [modules EXCEPT ![w].live = FALSE]
    /\ last' = Call("drop", w, <<>>, Ret(<<>>))
    /\ UNCHANGED <<llvm, engines, messages, nullDisposed, stdout, stderr, linked, files, added>>

\* The ExecutionEngine going out of scope: the engine owns the module it was
\* built for and disposes of it with itself.
drop_engine(e) ==
    /\ e \in 1..Len(engines)
    /\ engines[e].live
    /\ engines[e].init
    /\ engines' = [engines EXCEPT ![e].live = FALSE]
    /\ llvm' = [llvm EXCEPT ![engines[e].module].disposed = @ + 1]
    /\ last' = Call("drop_engine", e, <<>>, Ret(<<>>))
    /\ UNCHANGED <<modules, messages, nullDisposed, stdout, stderr, linked, files, added>>

(* ----------------------------------------------------- specifications -- *)
Linkage == {None} \cup {Some(x) : x \in Linkages}

\* The module lifecycle and the function declarations.
NextDecl ==
    \/ \E name \in Strs, ok \in BOOLEAN : create(name, ok)
    \/ \E ok \in BOOLEAN : context_create_module(ok)
    \/ \E w \in Live, ok \in BOOLEAN : clone(w, ok)
    \/ \E w \in Live, name \in Strs : add_function(w, name, None)
    \/ \E w \in Live : CallGetFirstFunction(w)
    \/ \E w \in Live : CallGetLastFunction(w)
    \/ \E w \in Live, name \in Strs : CallGetFunction(w, name)

\* Verification, the execution engines and the release of the handles.
NextEngine ==
    \/ \E name \in Texts, ok \in BOOLEAN : create(name, ok)
    \/ \E w \in Live, ok \in BOOLEAN : clone(w, ok)
    \/ \E w \in Live, print \in BOOLEAN, code \in LLVMBool : verify(w, print, code)
    \/ \E w \in Live, jit \in BOOLEAN, code \in LLVMBool :
          create_execution_engine(w, jit, code)
    \/ \E w \in Live : drop(w)
    \/ \E e \in 1..Len(engines) : drop_engine(e)

\* Every operation that passes a string of the caller's to the backend, on
\* one module: each of them touches only the module it is called on.
NextStrings ==
    \/ \E name \in Texts, ok \in BOOLEAN : llvm = <<>> /\ create(name, ok)
    \/ \E w \in Live, name \in Texts, l \in Linkage : add_function(w, name, l)
    \/ \E w \in Live, name \in Texts : CallGetFunction(w, name)
    \/ \E w \in Live, name \in Texts : CallGetType(w, name)
    \/ \E w \in Live, t \in Texts : set_target(w, t)
    \/ \E w \in Live, d \in Layouts : set_data_layout(w, d)
    \/ \E w \in Live, init \in BOOLEAN, space \in {None, Some(1)}, name \in Texts :
          add_global(w, init, space, name)
    \/ \E w \in Live, path \in Texts, unicode \in BOOLEAN, status \in WriteStatus :
          write_bitcode_to_path(w, path, unicode, status)

Next == NextDecl \/ NextEngine \/ NextStrings

Spec == Init /\ [][Next]_vars
SpecDecl == Init /\ [][NextDecl]_vars
SpecEngine == Init /\ [][NextEngine]_vars
SpecStrings == Init /\ [][NextStrings]_vars

(* --------------------------------------------------------------- claims -- *)
NulFree == {s \in Strs \cup Texts : ~HasNul(s)}
HandleOf(w) == modules[w].module

\* The owners of backend module h: the live Module values holding it and the
\* live engines built for it.
Owners(h) == {<<"module", w>> : w \in {x \in Live : HandleOf(x) = h}}
             \cup {<<"engine", e>> : e \in {x \in 1..Len(engines) :
                                             engines[x].live /\ engines[x].module = h}}

\* C1: every backend module handle is released at most once, and exactly
\* once when no Module and no engine owns it any more.
C1_ReleasedExactlyOnce ==
    \A h \in 1..Len(llvm) :
        /\ llvm[h].disposed <= 1
        /\ Owners(h) = {} => llvm[h].disposed = 1

\* C2: every diagnostic message the backend hands to verify or to
\* create_execution_engine has been released exactly once when the call
\* returns, and no release is attempted on a null message.
C2_DiagnosticsReleasedOnce ==
    /\ \A i \in 1..Len(messages) : messages[i] = 1
    /\ nullDisposed = 0

\* A failed engine construction whose message was handed out and released,
\* after a failed verification.
C2_Witness ==
    /\ last.op = "create_execution_engine"
    /\ last.code = 1
    /\ Len(messages) >= 1
    /\ messages[Len(messages)] = 1
    /\ stderr # <<>>

\* C3: verify returns true exactly when the backend's code is 0; a failed
\* verify puts the backend's diagnostic on the error stream when print is
\* true and emits nothing when it is false; nothing goes to stdout.
C3_VerifyReports ==
    last.op = "verify" =>
        /\ (last.res = Ret(TRUE)) <=> (last.code = 0)
        /\ last.res \in {Ret(TRUE), Ret(FALSE)}
        /\ last.out = <<>>
        /\ last.err = IF last.res = Ret(FALSE) /\ last.arg THEN <<VerifyText>> ELSE <<>>

C3_Witness ==
    /\ last.op = "verify"
    /\ last.arg = TRUE
    /\ last.res = Ret(FALSE)
    /\ stderr = <<VerifyText>>

FreshDistinct(h) ==
    /\ Len(added[h]) = Len(llvm[h].fns)
    /\ \A k \in 1..Len(added[h]) : added[h][k].fresh

\* C5: on a module whose functions all came from add_function calls with
\* distinct names, get_first_function and get_last_function are empty while
\* nothing was added, and otherwise are the handle the first call returned
\* and the handle the latest call returned.
C5_FirstLast ==
    \A w \in Usable :
        FreshDistinct(HandleOf(w)) =>
            LET calls == added[HandleOf(w)]
            IN /\ get_first_function(w) =
                      IF calls = <<>> THEN None ELSE Some(calls[1].ret)
               /\ get_last_function(w) =
                      IF calls = <<>> THEN None ELSE Some(calls[Len(calls)].ret)

C5_Witness ==
    /\ last.op = "get_last_function"
    /\ last.w \in Usable
    /\ FreshDistinct(HandleOf(last.w))
    /\ Len(added[HandleOf(last.w)]) = 2
    /\ last.res = Some(added[HandleOf(last.w)][2].ret)
    /\ get_first_function(last.w) = Some(added[HandleOf(last.w)][1].ret)

\* C6 as stated: after any add_function(name, sig, None), get_function(name)
\* is the handle that call returned; get_function of a name never added to
\* the module is empty.
C6_Original ==
    \A w \in Usable :
        LET calls == added[HandleOf(w)]
        IN /\ \A k \in 1..Len(calls) :
                 calls[k].linkage = None =>
                     get_function(w, calls[k].name) = Some(calls[k].ret)
           /\ \A name \in Strs :
                 (\A k \in 1..Len(calls) : calls[k].name # name) =>
                     get_function(w, name) = None

\* C6 amended: after add_function(name, sig, None) on a module that held no
\* function of that name, get_function(name) is the handle that call
\* returned; get_function of a NUL-free name that no function of the module
\* bears is empty.
C6_Amended ==
    \A w \in Usable :
        LET calls == added[HandleOf(w)]
        IN /\ \A k \in 1..Len(calls) :
                 calls[k].linkage = None /\ calls[k].fresh =>
                     get_function(w, calls[k].name) = Some(calls[k].ret)
           /\ \A name \in NulFree :
                 name \notin FnNames(HandleOf(w)) => get_function(w, name) = None

\* A lookup that finds the first-added function on a module where the name
\* was later added again.
C6_Witness ==
    /\ last.op = "get_function"
    /\ last.w \in Usable
    /\ LET calls == added[HandleOf(last.w)]
       IN /\ Len(calls) = 2
          /\ calls[1].fresh /\ ~calls[2].fresh
          /\ last.arg = calls[1].name
          /\ last.res = Some(calls[1].ret)

\* C7: a clone holds a handle other than its source's and finds every
\* function name the source holds at clone time; an add_function on one
\* Module leaves the get_function results of every other Module as they
\* were.
C7_CloneIndependent ==
    /\ [](last.op = "clone" /\ last.res # Panic =>
            /\ HandleOf(last.w) # HandleOf(last.arg)
            /\ \A name \in FnNames(HandleOf(last.arg)) :
                  get_function(last.w, name) \notin {None, Panic})
    /\ [][last'.op = "add_function" =>
            \A w \in Usable \ {last'.w} : \A name \in NulFree :
                get_function(w, name)' = get_function(w, name)]_vars

\* An add_function on a clone that inherited a function, beside its source.
C7_Witness ==
    /\ last.op = "add_function"
    /\ last.res # Panic
    /\ Len(added[HandleOf(last.w)]) = 1
    /\ Len(llvm[HandleOf(last.w)].fns) = 2
    /\ \E w \in Usable \ {last.w} : Len(llvm[HandleOf(w)].fns) = 1

StringOps == {"create", "add_function", "get_function", "get_type",
              "set_target", "add_global", "write_bitcode_to_path"}

\* C8: a call of a string-passing operation with a NUL in its string panics
\* and leaves the backend's modules, the Module values and the files as they
\* were.
C8_NulAborts ==
    [][(last'.op \in StringOps /\ HasNul(last'.arg)) =>
          /\ last'.res = Panic
          /\ llvm' = llvm
          /\ modules' = modules
          /\ files' = files]_vars

C8_Witness ==
    /\ last.op = "add_function"
    /\ HasNul(last.arg)
    /\ last.res = Panic
    /\ llvm[HandleOf(last.w)].fns # <<>>
    /\ llvm[HandleOf(last.w)].globals # <<>>

\* C9 as stated: on a module with a declared function, a write that does not
\* panic returns true and leaves a non-empty file.
C9_Original ==
    (/\ last.op = "write_bitcode_to_path"
     /\ last.res # Panic
     /\ llvm[HandleOf(last.w)].fns # <<>>) =>
        /\ last.res = Ret(TRUE)
        /\ files[last.arg] > 0

\* C9 amended: write_bitcode_to_path returns true exactly when the backend's
\* status is 0; when it returns true on a module with a declared function, a
\* non-empty file is at the path.
C9_Amended ==
    (last.op = "write_bitcode_to_path" /\ last.res # Panic) =>
        /\ (last.res = Ret(TRUE)) <=> (last.code = 0)
        /\ last.res \in {Ret(TRUE), Ret(FALSE)}
        /\ (last.res = Ret(TRUE) /\ llvm[HandleOf(last.w)].fns # <<>>) =>
              files[last.arg] > 0

C9_Witness ==
    /\ last.op = "write_bitcode_to_path"
    /\ last.res = Ret(TRUE)
    /\ llvm[HandleOf(last.w)].fns # <<>>
    /\ files[last.arg] = BitcodeSize(HandleOf(last.w))

\* C10: every Module value holds a non-null handle, and create, new and
\* clone panic when the handle the backend gave is null.
C10_NonNullHandle ==
    /\ \A w \in 1..Len(modules) : modules[w].module # NullRef
    /\ (last.op \in {"create", "new", "clone"} /\ last.code = NullRef) =>
          last.res = Panic
    /\ (last.op \in {"create", "new", "clone"} /\ last.res # Panic) =>
          /\ last.w = Len(modules)
          /\ last.res = Some(HandleOf(last.w))

\* A clone refused because the backend gave null, with a Module in being.
C10_Witness ==
    /\ last.op = "clone"
    /\ last.code = NullRef
    /\ last.res = Panic
    /\ Live # {}
====
